---- MODULE Spec2Model ----
(***************************************************************************)
(* The secret-message decoder: fetch a document, extract (x, char, y)      *)
(* rows of its first table, render them as a character grid.               *)
(*                                                                         *)
(* A text (Go string) is a sequence of one-character strings.  Go indexes  *)
(* from 0, TLA+ sequences from 1: grid[r][c] of the code is                *)
(* grid[r + 1][c + 1] here.                                                *)
(***************************************************************************)
EXTENDS Integers, Sequences, FiniteSets, TLC

VARIABLES
    pc,         \* position of main
    argc,       \* len(os.Args)
    status,     \* resp.StatusCode, NoStatus before a response exists
    bodyOpen,   \* resp.Body is open
    deferred,   \* defer resp.Body.Close() has been registered
    parsed,     \* doc is set: NewDocumentFromReader has returned a document
    rows,       \* the tr elements of the first table, each the texts of its td cells
    i,          \* loop index: the row in Each, the cell in the place loop, the row in the print loop
    cells,      \* []Cell
    maxX, maxY, \* grid bounds
    grid,       \* [][]string
    stdout,     \* lines written by fmt.Println
    stderr,     \* messages written by the log package
    exit        \* process exit status, NotExited while running

vars == <<pc, argc, status, bodyOpen, deferred, parsed, rows, i, cells, maxX, maxY,
          grid, stdout, stderr, exit>>

----------------------------------------------------------------------------
(* Bounds of the model *)

\* data rows (tr after the header) of a document
MaxDataRows == 2

----------------------------------------------------------------------------
(* Program constants *)

StatusOK == 200
MinColumns == 3
FatalExitCode == 1
PanicExitCode == 2
NoStatus == 0
NotExited == -1

----------------------------------------------------------------------------
(* Texts *)

Digits == <<"0", "1", "2", "3", "4", "5", "6", "7", "8", "9">>

IsDigit(ch) == \E d \in 1..Len(Digits) : Digits[d] = ch

DigitValue(ch) == (CHOOSE d \in 1..Len(Digits) : Digits[d] = ch) - 1

\* unicode.IsSpace on the characters of the model's alphabet
IsSpace(ch) == ch \in {" ", "\t", "\n"}

RECURSIVE TrimLeftSpace(_)
TrimLeftSpace(s) ==
    IF s # <<>> /\ IsSpace(Head(s)) THEN TrimLeftSpace(Tail(s)) ELSE s

RECURSIVE TrimRightSpace(_)
TrimRightSpace(s) ==
    IF s # <<>> /\ IsSpace(s[Len(s)])
    THEN TrimRightSpace(SubSeq(s, 1, Len(s) - 1))
    ELSE s

\* strings.TrimSpace
TrimSpace(s) == TrimRightSpace(TrimLeftSpace(s))

\* strings.TrimRight(s, " "): only the blank is in the cutset
RECURSIVE TrimRight(_)
TrimRight(s) ==
    IF s # <<>> /\ s[Len(s)] = " "
    THEN TrimRight(SubSeq(s, 1, Len(s) - 1))
    ELSE s

\* strings.Join(elems, "")
RECURSIVE Join(_)
Join(elems) ==
    IF elems = <<>> THEN <<>> ELSE Head(elems) \o Join(Tail(elems))

\* the digit loop of strconv.Atoi: n = n*10 + int(ch), a syntax error on a non-digit
RECURSIVE AtoiDigits(_, _)
AtoiDigits(s, n) ==
    IF s = <<>> THEN [ok |-> TRUE, val |-> n]
    ELSE IF ~IsDigit(Head(s)) THEN [ok |-> FALSE, val |-> 0]
    ELSE AtoiDigits(Tail(s), n * 10 + DigitValue(Head(s)))

\* strconv.Atoi: an optional sign, then at least one digit, nothing else.
\* (Texts of the model are far shorter than the 19 digits that overflow an int.)
Atoi(s) ==
    IF s = <<>> THEN [ok |-> FALSE, val |-> 0]
    ELSE LET signed == Head(s) \in {"-", "+"}
             body == IF signed THEN Tail(s) ELSE s
             r == AtoiDigits(body, 0)
         IN  IF body = <<>> \/ ~r.ok THEN [ok |-> FALSE, val |-> 0]
             ELSE [ok |-> TRUE, val |-> IF Head(s) = "-" THEN -r.val ELSE r.val]

----------------------------------------------------------------------------
(* Inputs *)

ArgCounts == {1, 2}

StatusCodes == {200, 204, 404}

\* texts of the first cell (x), untrimmed
XTexts == { <<"0">>, <<"\t", "1", " ">>, <<"-", "1">>, <<"x", "1">> }

\* texts of the third cell (y), untrimmed
YTexts == { <<"0">>, <<"+", "1">>, <<"-", "2">>, <<>> }

\* texts of the second cell (payload), untrimmed
CTexts == { <<"A">>, <<" ", "B", "C", " ">> }

\* the td texts of a data row
RowSet ==
    { <<x, c, y>> : x \in XTexts, c \in CTexts, y \in YTexts }
    \cup { <<>>,                                  \* th cells only
           << <<"1">>, <<"D">> >>,                \* two cells
           << <<"2">>, <<>>, <<"0">> >>,          \* empty payload
           << <<"1">>, <<"E">>, <<"1">>, <<"9">> >> }   \* a fourth cell

\* the td texts of the first row
HeaderRows == { <<>>, << <<"0">>, <<"H">>, <<"0">> >> }

\* the rows of the first table; <<>> when the document has no table
Docs ==
    { <<>> } \cup
    { <<h>> \o d : h \in HeaderRows,
                   d \in UNION { [1..n -> RowSet] : n \in 0..MaxDataRows } }

----------------------------------------------------------------------------
(* Initial state: the process has started, nothing has run *)

Init ==
    /\ pc = "args"
    /\ argc \in ArgCounts
    /\ status = NoStatus
    /\ bodyOpen = FALSE
    /\ deferred = FALSE
    /\ parsed = FALSE
    /\ rows = <<>>
    /\ i = 0
    /\ cells = <<>>
    /\ maxX = 0
    /\ maxY = 0
    /\ grid = <<>>
    /\ stdout = <<>>
    /\ stderr = <<>>
    /\ exit = NotExited

----------------------------------------------------------------------------
(* Ways the process ends *)

\* log.Fatal / log.Fatalf: print the message, os.Exit(1). Deferred calls do not run.
Fatal(msg) ==
    /\ stderr' = Append(stderr, msg)
    /\ exit' = FatalExitCode
    /\ pc' = "fatal"
    /\ UNCHANGED <<bodyOpen, deferred>>

\* a run-time panic unwinds main: deferred calls run, then the process exits 2
Panic(msg) ==
    /\ stderr' = Append(stderr, msg)
    /\ exit' = PanicExitCode
    /\ pc' = "panic"
    /\ bodyOpen' = IF deferred THEN FALSE ELSE bodyOpen
    /\ UNCHANGED deferred

\* main returns: deferred calls run, the process exits 0
Return ==
    /\ exit' = 0
    /\ pc' = "done"
    /\ bodyOpen' = IF deferred THEN FALSE ELSE bodyOpen
    /\ UNCHANGED <<deferred, stderr>>

----------------------------------------------------------------------------
(* main *)

CheckArgs ==
    /\ pc = "args"
    /\ IF argc < 2
       THEN Fatal("Usage: go run main.go <public_google_doc_url>")
       ELSE /\ pc' = "fetch"
            /\ UNCHANGED <<bodyOpen, deferred, stderr, exit>>
    /\ UNCHANGED <<argc, status, parsed, rows, i, cells, maxX, maxY, grid, stdout>>

\* http.Get failed: no response, nothing to close
FetchError ==
    /\ pc = "fetch"
    /\ Fatal("Failed to fetch document")
    /\ UNCHANGED <<argc, status, parsed, rows, i, cells, maxX, maxY, grid, stdout>>

\* http.Get returned a response; its Close is deferred
FetchResponse ==
    /\ pc = "fetch"
    /\ \E code \in StatusCodes : status' = code
    /\ bodyOpen' = TRUE
    /\ deferred' = TRUE
    /\ pc' = "status"
    /\ UNCHANGED <<argc, parsed, rows, i, cells, maxX, maxY, grid, stdout, stderr, exit>>

\* a status check that lets every response through
StatusIsAnyResponse(code) == code # NoStatus

StatusIsOK(code) == code = StatusOK

CheckStatus ==
    /\ pc = "status"
    /\ IF ~StatusIsOK(status)
       THEN Fatal("Failed to fetch document: HTTP")
       ELSE /\ pc' = "parse"
            /\ UNCHANGED <<bodyOpen, deferred, stderr, exit>>
    /\ UNCHANGED <<argc, status, parsed, rows, i, cells, maxX, maxY, grid, stdout>>

\* goquery.NewDocumentFromReader failed
ParseError ==
    /\ pc = "parse"
    /\ Fatal("Failed to parse document HTML")
    /\ UNCHANGED <<argc, status, parsed, rows, i, cells, maxX, maxY, grid, stdout>>

\* the document parsed: the debug line is printed, extraction starts at row 0
ParseDocument ==
    /\ pc = "parse"
    /\ \E d \in Docs : rows' = d
    /\ parsed' = TRUE
    /\ stdout' = Append(stdout, <<"document: ", "<doc>">>)
    /\ i' = 0
    /\ cells' = <<>>
    /\ pc' = "extract"
    /\ UNCHANGED <<argc, status, bodyOpen, deferred, maxX, maxY, grid, stderr, exit>>

----------------------------------------------------------------------------
(* parseCharacterGridFromDoc *)

\* a callback that does not skip the first row
IsHeaderNever(idx) == idx < 0

\* if i == 0 { return }
IsHeader(idx) == idx = 0

\* tds.Length() < 3 is the skip; this is its negation
HasEnoughColumns(tds) == Len(tds) >= MinColumns

\* The callback of Each on row idx with cells tds: what it appends and what it logs.
\* Every early return leaves cells alone; only the failed conversion logs.
RowResult(idx, tds) ==
    IF IsHeader(idx) THEN [keep |-> FALSE, logged |-> FALSE]
    ELSE IF ~HasEnoughColumns(tds) THEN [keep |-> FALSE, logged |-> FALSE]
    ELSE LET xStr == TrimSpace(tds[1])
             char == TrimSpace(tds[2])
             yStr == TrimSpace(tds[3])
             x == Atoi(xStr)
             y == Atoi(yStr)
         IN  IF ~x.ok \/ ~y.ok
             THEN [keep |-> FALSE, logged |-> TRUE]
             ELSE [keep |-> TRUE, logged |-> FALSE,
                   cell |-> [X |-> x.val, Y |-> y.val, C |-> char]]

\* one iteration of Each: rows[i + 1] is the row of index i
ExtractRow ==
    /\ pc = "extract"
    /\ i < Len(rows)
    /\ LET r == RowResult(i, rows[i + 1])
       IN  /\ cells' = IF r.keep THEN Append(cells, r.cell) ELSE cells
           /\ stderr' = IF r.logged THEN Append(stderr, "Skipping invalid row") ELSE stderr
    /\ i' = i + 1
    /\ UNCHANGED <<pc, argc, status, bodyOpen, deferred, parsed, rows, maxX, maxY, grid,
                   stdout, exit>>

\* Each is over: the function returns, main prints the cells and rejects an empty list
ExtractDone ==
    /\ pc = "extract"
    /\ i = Len(rows)
    /\ stdout' = Append(stdout, <<"cells: ", "<cells>">>)
    /\ IF Len(cells) = 0
       THEN Fatal("No valid table data found.")
       ELSE /\ pc' = "render"
            /\ UNCHANGED <<bodyOpen, deferred, stderr, exit>>
    /\ UNCHANGED <<argc, status, parsed, rows, i, cells, maxX, maxY, grid>>

----------------------------------------------------------------------------
(* renderGridFromCells *)

\* a first loop that stops after the first cell
LoopMaxXFirstOnly(cs, m) ==
    IF cs = <<>> THEN m
    ELSE IF Head(cs).X > m THEN Head(cs).X ELSE m

\* the first loop, for X: m starts at 0 and rises to each larger X
RECURSIVE LoopMaxX(_, _)
LoopMaxX(cs, m) ==
    IF cs = <<>> THEN m
    ELSE LoopMaxX(Tail(cs), IF Head(cs).X > m THEN Head(cs).X ELSE m)

\* the first loop, for Y
RECURSIVE LoopMaxY(_, _)
LoopMaxY(cs, m) ==
    IF cs = <<>> THEN m
    ELSE LoopMaxY(Tail(cs), IF Head(cs).Y > m THEN Head(cs).Y ELSE m)

Blank == <<" ">>

\* make([][]string, h), each row make([]string, w) filled with " "
MakeGrid(h, w) == [r \in 1..h |-> [c \in 1..w |-> Blank]]

\* the run-time index checks of g[r][c]
InRange(g, r, c) ==
    /\ 0 <= r /\ r < Len(g)
    /\ 0 <= c /\ c < Len(g[r + 1])

\* the bounds are computed and the blank grid is allocated
RenderStart ==
    /\ pc = "render"
    /\ maxX' = LoopMaxX(cells, 0)
    /\ maxY' = LoopMaxY(cells, 0)
    /\ grid' = MakeGrid(maxY' + 1, maxX' + 1)
    /\ i' = 0
    /\ pc' = "place"
    /\ UNCHANGED <<argc, status, bodyOpen, deferred, parsed, rows, cells, stdout, stderr, exit>>

\* grid[c.Y][c.X] = c.C for the cell of index i
PlaceCell ==
    /\ pc = "place"
    /\ i < Len(cells)
    /\ LET c == cells[i + 1]
       IN  IF InRange(grid, c.Y, c.X)
           THEN /\ grid' = [grid EXCEPT ![c.Y + 1][c.X + 1] = c.C]
                /\ i' = i + 1
                /\ UNCHANGED <<pc, bodyOpen, deferred, stderr, exit>>
           ELSE /\ Panic("index out of range")
                /\ UNCHANGED <<grid, i>>
    /\ UNCHANGED <<argc, status, parsed, rows, cells, maxX, maxY, stdout>>

\* for i := maxY
PrintLoopInit(my) == my

\* a print loop that stops before row 0
PrintLoopCondPositive(idx) == idx > 0

\* i >= 0
PrintLoopCond(idx) == idx >= 0

\* i--
PrintLoopStep(idx) == idx - 1

\* the place loop is over; the print loop starts at the top row
PlaceDone ==
    /\ pc = "place"
    /\ i = Len(cells)
    /\ i' = PrintLoopInit(maxY)
    /\ pc' = "print"
    /\ UNCHANGED <<argc, status, bodyOpen, deferred, parsed, rows, cells, maxX, maxY, grid,
                   stdout, stderr, exit>>

\* strings.TrimRight(strings.Join(grid[i], ""), " ")
RowLine(g, r) == TrimRight(Join(g[r + 1]))

\* one line is printed
PrintRow ==
    /\ pc = "print"
    /\ PrintLoopCond(i)
    /\ IF 0 <= i /\ i < Len(grid)
       THEN /\ stdout' = Append(stdout, RowLine(grid, i))
            /\ i' = PrintLoopStep(i)
            /\ UNCHANGED <<pc, bodyOpen, deferred, stderr, exit>>
       ELSE /\ Panic("index out of range")
            /\ UNCHANGED <<stdout, i>>
    /\ UNCHANGED <<argc, status, parsed, rows, cells, maxX, maxY, grid>>

\* the print loop is over: renderGridFromCells returns and so does main
MainReturn ==
    /\ pc = "print"
    /\ ~PrintLoopCond(i)
    /\ Return
    /\ UNCHANGED <<argc, status, parsed, rows, i, cells, maxX, maxY, grid, stdout>>

----------------------------------------------------------------------------
(* Specification *)

Next ==
    \/ CheckArgs
    \/ FetchError
    \/ FetchResponse
    \/ CheckStatus
    \/ ParseError
    \/ ParseDocument
    \/ ExtractRow
    \/ ExtractDone
    \/ RenderStart
    \/ PlaceCell
    \/ PlaceDone
    \/ PrintRow
    \/ MainReturn

Spec == Init /\ [][Next]_vars

----------------------------------------------------------------------------
(* Vocabulary of the properties *)

Terminal == {"done", "fatal", "panic"}

RenderPcs == {"render", "place", "print"}

\* parseCharacterGridFromDoc has returned
ExtractionOver == parsed /\ pc # "extract"

\* the lines on standard output after the two lines main prints before rendering
RenderOutput == [k \in 1..(Len(stdout) - 2) |-> stdout[k + 2]]

NonNegative(cs) == \A n \in 1..Len(cs) : cs[n].X >= 0 /\ cs[n].Y >= 0

\* the largest member of a non-empty set of integers
SetMax(S) == CHOOSE m \in S : \A v \in S : v <= m

SetMin(S) == CHOOSE m \in S : \A v \in S : m <= v

\* max(x) and max(y) over the records
TrueMaxX == SetMax({cells[n].X : n \in 1..Len(cells)})
TrueMaxY == SetMax({cells[n].Y : n \in 1..Len(cells)})

\* the printed line of grid row y, when all rows were printed
PrintedLine(y) == RenderOutput[TrueMaxY - y + 1]

\* the indices of the records at coordinate (x, y)
RecordsAt(x, y) == {n \in 1..Len(cells) : cells[n].X = x /\ cells[n].Y = y}

\* every record of row y carries exactly one character
RowSingle(y) == \A n \in 1..Len(cells) : cells[n].Y = y => Len(cells[n].C) = 1

\* a text without its leading and trailing white space, by position
Stripped(s) ==
    LET solid == {k \in 1..Len(s) : ~IsSpace(s[k])}
    IN  IF solid = {} THEN <<>> ELSE SubSeq(s, SetMin(solid), SetMax(solid))

\* the unsigned part of a text that may start with a sign
Unsigned(s) == IF s # <<>> /\ s[1] \in {"+", "-"} THEN Tail(s) ELSE s

\* a decimal integer: an optional sign and one digit or more
IsIntText(s) ==
    /\ Unsigned(s) # <<>>
    /\ \A k \in 1..Len(Unsigned(s)) : IsDigit(Unsigned(s)[k])

RECURSIVE Pow10(_)
Pow10(n) == IF n = 0 THEN 1 ELSE 10 * Pow10(n - 1)

RECURSIVE PlaceSum(_, _)
PlaceSum(u, k) ==
    IF k > Len(u) THEN 0
    ELSE DigitValue(u[k]) * Pow10(Len(u) - k) + PlaceSum(u, k + 1)

\* the integer a decimal text denotes
IntValue(s) ==
    IF s[1] = "-" THEN 0 - PlaceSum(Unsigned(s), 1) ELSE PlaceSum(Unsigned(s), 1)

\* a row that yields a record: three cells or more, x and y integers
ValidRow(tds) ==
    /\ Len(tds) >= 3
    /\ IsIntText(Stripped(tds[1]))
    /\ IsIntText(Stripped(tds[3]))

RecordOf(tds) ==
    [X |-> IntValue(Stripped(tds[1])),
     Y |-> IntValue(Stripped(tds[3])),
     C |-> Stripped(tds[2])]

\* the records of the valid rows among rows 1 .. n-1 (row 0 is the header), in row order
RECURSIVE ExpectedCells(_, _)
ExpectedCells(rs, n) ==
    IF n < 2 THEN <<>>
    ELSE ExpectedCells(rs, n - 1)
         \o (IF ValidRow(rs[n]) THEN <<RecordOf(rs[n])>> ELSE <<>>)

----------------------------------------------------------------------------
(* Properties *)

\* C1: a rendered list of non-negative records prints exactly maxY+1 lines, each of
\* length at most maxX+1 after trimming, whatever the payloads are.
C1_LineCountAndWidth ==
    (pc = "done" /\ NonNegative(cells)) =>
        /\ Len(RenderOutput) = TrueMaxY + 1
        /\ \A k \in 1..Len(RenderOutput) : Len(RenderOutput[k]) <= TrueMaxX + 1

\* C2: in the printed line of row y, column x shows the payload of the last record
\* at (x, y); where no record is, it shows a blank or lies past the trimmed end.
C2_LastRecordShown ==
    pc = "done" =>
        \A y \in 0..TrueMaxY : \A x \in 0..TrueMaxX :
            LET line == PrintedLine(y)
                at == RecordsAt(x, y)
            IN  IF at = {}
                THEN x + 1 > Len(line) \/ line[x + 1] = " "
                ELSE /\ x + 1 <= Len(line)
                     /\ <<line[x + 1]>> = cells[SetMax(at)].C

\* C3: the k-th printed line (from 0) is grid row maxY-k, all maxY+1 rows are printed,
\* and so a one-character record of row y stands on line maxY-y: the largest y first,
\* y = 0 last.
C3_RowsTopDown ==
    pc \in {"print", "done"} =>
        /\ \A k \in 1..Len(RenderOutput) :
              RenderOutput[k] = RowLine(grid, maxY - (k - 1))
        /\ Len(RenderOutput) = maxY - i
        /\ pc = "done" =>
              /\ Len(RenderOutput) = TrueMaxY + 1
              /\ \A n \in 1..Len(cells) :
                    (RowSingle(cells[n].Y) /\ n = SetMax(RecordsAt(cells[n].X, cells[n].Y)))
                    => /\ cells[n].X + 1 <= Len(PrintedLine(cells[n].Y))
                       /\ PrintedLine(cells[n].Y)[cells[n].X + 1] = cells[n].C[1]

C3_Witness ==
    /\ pc = "done"
    /\ maxY >= 1
    /\ RowSingle(0) /\ RowSingle(maxY)
    /\ \E a, b \in 1..Len(cells) : cells[a].Y = 0 /\ cells[b].Y = maxY

\* C4: the list holds exactly the records of the valid rows after row 0, in row order,
\* at every point of the extraction and after it: skipped rows stop nothing.
C4_ExactlyValidRows ==
    parsed => cells = ExpectedCells(rows, IF pc = "extract" THEN i ELSE Len(rows))

C4_Witness ==
    /\ ExtractionOver
    /\ Len(rows) = 3
    /\ Len(rows[1]) >= 3
    /\ ~ValidRow(rows[2])
    /\ Len(rows[2]) >= 3
    /\ Len(cells) = 1

\* C5: an empty extraction result ends the run fatally with the "no valid data"
\* message and a non-zero exit status, and standard output is empty.
C5_EmptyResultNoOutput ==
    (ExtractionOver /\ cells = <<>>) =>
        /\ pc = "fatal"
        /\ exit # 0
        /\ stderr[Len(stderr)] = "No valid table data found."
        /\ stdout = <<>>

\* C6: once a response was returned, no run ends with the response stream open.
C6_BodyClosedAtExit ==
    (exit # NotExited /\ status # NoStatus) => ~bodyOpen

\* C7: on a successful run standard output is exactly the grid: row maxY first,
\* row 0 last, and no other line.
C7_OnlyTheGrid ==
    pc = "done" =>
        stdout = [k \in 1..(maxY + 1) |-> RowLine(grid, maxY - (k - 1))]

\* C8: every extracted record has non-negative x and y.
C8_NonNegativeRecords == NonNegative(cells)

\* the stage of a position of main
Stage(p) ==
    CASE p = "args" -> 0
      [] p = "fetch" -> 1
      [] p = "status" -> 2
      [] p = "parse" -> 3
      [] p = "extract" -> 4
      [] p \in RenderPcs -> 5
      [] p \in Terminal -> 6

\* C9: the stages run in order, none is re-entered, rendering starts only after the
\* argument, a success status, a parsed document and a non-empty list, and a run that
\* has ended stays ended, with exit 0 on success and a non-zero exit otherwise.
C9_LinearPipeline ==
    /\ [](pc \in RenderPcs =>
            /\ argc >= 2
            /\ status = StatusOK
            /\ parsed
            /\ cells # <<>>
            /\ exit = NotExited)
    /\ []((pc \in Terminal <=> exit # NotExited) /\ (pc = "done" <=> exit = 0))
    /\ [][/\ Stage(pc') >= Stage(pc)
          /\ Stage(pc') > Stage(pc) => (Stage(pc') = Stage(pc) + 1 \/ pc' \in Terminal)
          /\ pc \in Terminal => (pc' = pc /\ exit' = exit)]_vars

C9_Witness ==
    /\ pc = "done"
    /\ Len(cells) >= 2
    /\ Len(stdout) >= 4

\* C10: with non-negative records every grid access is inside the buffer: the grid
\* has maxY+1 rows of maxX+1 columns, each write and each row read is in range, and
\* rendering never panics.
C10_AccessesInRange ==
    NonNegative(cells) =>
        /\ pc # "panic"
        /\ pc \in {"place", "print"} =>
              /\ Len(grid) = maxY + 1
              /\ \A r \in 1..Len(grid) : Len(grid[r]) = maxX + 1
        /\ (pc = "place" /\ i < Len(cells)) =>
              /\ 0 <= cells[i + 1].Y /\ cells[i + 1].Y <= maxY
              /\ 0 <= cells[i + 1].X /\ cells[i + 1].X <= maxX
              /\ InRange(grid, cells[i + 1].Y, cells[i + 1].X)
        /\ (pc = "print" /\ PrintLoopCond(i)) => (0 <= i /\ i <= maxY /\ i < Len(grid))

C10_Witness ==
    /\ pc = "done"
    /\ Len(cells) >= 2
    /\ maxX >= 1
    /\ maxY >= 1
    /\ \E a, b \in 1..Len(cells) : cells[a].X = maxX /\ cells[a].Y = 0 /\ cells[b].Y = maxY

====
